---------------------------- MODULE Spec2Model ----------------------------
(***************************************************************************)
(* A model of the B-tree multimap of src/bTree.c.                          *)
(*                                                                         *)
(* The heap is explicit: mm_node structs and value buffers live in two     *)
(* maps from addresses (positive naturals) to contents, NULL is 0.  The    *)
(* arrays kNodes[MAX_KEYS] and kids[MAX_KEYS + 1] keep their C length and  *)
(* their C indices (from 0); the stale slots hold whatever the code left   *)
(* there.  An access outside an array or a buffer, a failed assert, a      *)
(* NULL dereference and a double free are recorded in the field "fault"    *)
(* of the memory rather than silently dropped.                             *)
(***************************************************************************)
EXTENDS Integers, Sequences, FiniteSets, TLC

(***************************************************************************)
(* Bounds of the model.                                                    *)
(***************************************************************************)
MaxKey == 4         \* Spec: keys are drawn from 1..MaxKey
MaxAdds == 6        \* Spec: add_value calls between two clears
MaxVal == 2         \* values asked for (and, in SpecVals, added): 1..MaxVal
MaxFanout == 3      \* MAX_KEYS is drawn from 2..MaxFanout
MaxSmallKey == 2    \* SpecVals, SpecGrow: keys are drawn from 1..MaxSmallKey
MaxValAdds == 3     \* SpecVals: add_value calls between two clears
MaxAppends == 17    \* SpecGrow: add_value calls per key
MaxDeepKey == 7     \* SpecDeep: keys are drawn from 1..MaxDeepKey
ExampleFanout == 4  \* SpecSplit: a MAX_KEYS above MaxFanout, for a small worked case

Keys == 1..MaxKey
SmallKeys == 1..MaxSmallKey
Vals == 1..MaxVal
DeepKeys == 1..MaxDeepKey
Fanouts == 2..MaxFanout

(***************************************************************************)
(* Program constants.  MAX_KEYS is a #define too (500 in the source); the  *)
(* model keeps it as a value fixed at start-up and passes it to the        *)
(* operators as the parameter MK, so that small fan-outs can be explored.  *)
(***************************************************************************)
LINE_SIZE == 64
SizeofValue == 4
NULL == 0

VARIABLES
    MAX_KEYS,   \* the build's MAX_KEYS
    mm,         \* the multimap: the handle, its root, the nodes, the buffers
    ret,        \* the last call of the interface and what it returned
    trace,      \* what the last add_value did on its way down the tree
    added,      \* history: for each key the values added since init/clear
    other,      \* SpecFan: a second build, with its own MAX_KEYS, mm and ret
    replay      \* SpecReplay: the calls recorded, and how far they are replayed

vars == <<MAX_KEYS, mm, ret, trace, added, other, replay>>

(***************************************************************************)
(* Memory.                                                                 *)
(***************************************************************************)
ZeroKNode == [key |-> 0, nVals |-> 0, values |-> NULL]

ZeroNode(MK) ==
    [isLeaf |-> 0, nKeys |-> 0,
     kNodes |-> [i \in 0..(MK - 1) |-> ZeroKNode],
     kids   |-> [i \in 0..MK |-> NULL]]

\* malloc's choice of address: the lowest one not in use
NewAddr(used) == CHOOSE a \in 1..(Cardinality(used) + 1) : a \notin used

\* the first fault of a call is the one that is kept
Fault(m, cond, what) ==
    IF cond /\ m.fault = "" THEN [m EXCEPT !.fault = what] ELSE m

\* pointers to a key_node: a slot of a node's kNodes array, or NULL
KeyPtr(node, idx) == [null |-> FALSE, node |-> node, idx |-> idx]
NullKeyPtr == [null |-> TRUE, node |-> NULL, idx |-> 0]

\* memmove(&dst[at], &src[from], n elements); arrays are functions on 0..len-1
InArray(arr, at, n) == n = 0 \/ (n > 0 /\ at >= 0 /\ at + n <= Cardinality(DOMAIN arr))

memmove(dst, at, src, from, n) ==
    [i \in DOMAIN dst |->
        IF i >= at /\ i < at + n /\ (from + (i - at)) \in DOMAIN src
        THEN src[from + (i - at)]
        ELSE dst[i]]

\* faulty variant: the memory is not zeroed
bzero_skipped(arr, at, n, zero) == arr

\* bzero(&arr[at], n elements)
bzero(arr, at, n, zero) ==
    [i \in DOMAIN arr |-> IF i >= at /\ i < at + n THEN zero ELSE arr[i]]

alloc_node(m, MK) ==
    [m |-> [m EXCEPT !.node = (NewAddr(DOMAIN m.node) :> [ZeroNode(MK) EXCEPT !.nKeys = 0])
                              @@ m.node],
     p |-> NewAddr(DOMAIN m.node)]

\* node->nKeys == MAX_KEYS
\* faulty variant: a node counts as full only past its capacity
isFull_late(node, MK) == node.nKeys > MK

\* faulty variant: a node counts as full one key early
isFull_early(node, MK) == node.nKeys >= MK - 1

isFull(node, MK) == node.nKeys = MK

\* faulty variant: the scan stops at the first key above the query, not at or above
RECURSIVE searchFrom_strict(_, _, _)
searchFrom_strict(node, key, i) ==
    IF i < node.nKeys
    THEN IF key < node.kNodes[i].key THEN i ELSE searchFrom_strict(node, key, i + 1)
    ELSE node.nKeys

RECURSIVE searchFrom(_, _, _)
searchFrom(node, key, i) ==
    IF i < node.nKeys
    THEN IF key <= node.kNodes[i].key THEN i ELSE searchFrom(node, key, i + 1)
    ELSE node.nKeys

searchInNode(node, key) == searchFrom(node, key, 0)

(***************************************************************************)
(* splitNode(parent, pos): the four steps of the source, in its order.     *)
(* P, E and Y are the structs of the parent, of the child to split (elder) *)
(* and of the new node (younger) as they are when splitNode starts.        *)
(***************************************************************************)
\* faulty variant: the lower of the two middle keys is taken
midOf_low(E) == (E.nKeys - 1) \div 2

\* int mid = elder->nKeys / 2
midOf(E) == E.nKeys \div 2

\* younger->nKeys = elder->nKeys - (mid + 1)
youngerKeys(E) == E.nKeys - (midOf(E) + 1)

\* steps 1 and 2: shift the parent's keys and kids, put the middle key and
\* the younger node in
\* faulty variant: the parent's kids are not shifted before the younger goes in
splitParent_kidsNotShifted(P, E, younger, pos) ==
    [P EXCEPT !.kNodes = [memmove(P.kNodes, pos + 1, P.kNodes, pos, P.nKeys - pos)
                            EXCEPT ![pos] = E.kNodes[midOf(E)]],
              !.kids   = [P.kids EXCEPT ![pos + 1] = younger],
              !.nKeys  = P.nKeys + 1]

\* faulty variant: the younger node is not put among the parent's kids
splitParent_noLink(P, E, younger, pos) ==
    [P EXCEPT !.kNodes = [memmove(P.kNodes, pos + 1, P.kNodes, pos, P.nKeys - pos)
                            EXCEPT ![pos] = E.kNodes[midOf(E)]],
              !.kids   = memmove(P.kids, pos + 2, P.kids, pos + 1, P.nKeys - pos),
              !.nKeys  = P.nKeys + 1]

splitParent(P, E, younger, pos) ==
    [P EXCEPT !.kNodes = [memmove(P.kNodes, pos + 1, P.kNodes, pos, P.nKeys - pos)
                            EXCEPT ![pos] = E.kNodes[midOf(E)]],
              !.kids   = [memmove(P.kids, pos + 2, P.kids, pos + 1, P.nKeys - pos)
                            EXCEPT ![pos + 1] = younger],
              !.nKeys  = P.nKeys + 1]

\* step 3: the upper keys (and kids) of the elder go to the younger
\* faulty variant: the younger sibling does not take the elder's isLeaf over
splitYounger_noLeafFlag(Y, E) ==
    [Y EXCEPT !.nKeys  = youngerKeys(E),
              !.kNodes = memmove(Y.kNodes, 0, E.kNodes, midOf(E) + 1, youngerKeys(E)),
              !.kids   = IF E.isLeaf = 0
                         THEN memmove(Y.kids, 0, E.kids, midOf(E) + 1, youngerKeys(E) + 1)
                         ELSE Y.kids]

\* faulty variant: the younger sibling is always marked a leaf
splitYounger_alwaysLeaf(Y, E) ==
    [Y EXCEPT !.nKeys  = youngerKeys(E),
              !.kNodes = memmove(Y.kNodes, 0, E.kNodes, midOf(E) + 1, youngerKeys(E)),
              !.isLeaf = 1,
              !.kids   = IF E.isLeaf = 0
                         THEN memmove(Y.kids, 0, E.kids, midOf(E) + 1, youngerKeys(E) + 1)
                         ELSE Y.kids]

splitYounger(Y, E) ==
    [Y EXCEPT !.nKeys  = youngerKeys(E),
              !.kNodes = memmove(Y.kNodes, 0, E.kNodes, midOf(E) + 1, youngerKeys(E)),
              !.isLeaf = E.isLeaf,
              !.kids   = IF E.isLeaf = 0
                         THEN memmove(Y.kids, 0, E.kids, midOf(E) + 1, youngerKeys(E) + 1)
                         ELSE Y.kids]

\* step 4: the elder keeps the lower keys, what moved is zeroed
splitElder(E) ==
    [E EXCEPT !.nKeys  = midOf(E),
              !.kNodes = bzero(E.kNodes, midOf(E), youngerKeys(E) + 1, ZeroKNode),
              !.kids   = IF E.isLeaf = 0
                         THEN bzero(E.kids, midOf(E) + 1, youngerKeys(E) + 1, NULL)
                         ELSE E.kids]

\* an access of splitNode that leaves an array
splitOutOfBounds(P, E, pos) ==
    \/ ~InArray(P.kNodes, pos + 1, P.nKeys - pos)
    \/ ~InArray(P.kids, pos + 2, P.nKeys - pos)
    \/ pos \notin DOMAIN P.kNodes
    \/ ~InArray(E.kNodes, midOf(E) + 1, youngerKeys(E))
    \/ ~InArray(E.kNodes, midOf(E), youngerKeys(E) + 1)
    \/ (E.isLeaf = 0 /\ ~InArray(E.kids, midOf(E) + 1, youngerKeys(E) + 1))

splitNodes(m, MK, parent, elder, younger, pos, P, E, Y) ==
    Fault(Fault([m EXCEPT !.node = (parent :> splitParent(P, E, younger, pos))
                                   @@ (younger :> splitYounger(Y, E))
                                   @@ (elder :> splitElder(E))
                                   @@ m.node],
                splitOutOfBounds(P, E, pos), "out of bounds"),
          P.nKeys + 1 > MK, "assert")

splitInto(al, MK, parent, elder, pos) ==
    splitNodes(al.m, MK, parent, elder, al.p, pos,
               al.m.node[parent], al.m.node[elder], al.m.node[al.p])

splitNode(m, MK, parent, pos) ==
    splitInto(alloc_node(m, MK), MK, parent, m.node[parent].kids[pos], pos)

(***************************************************************************)
(* The events of one find_node(create) call, in the order they happen.     *)
(* A call returns [m, p, tr]: the memory after it, the key_node pointer    *)
(* returned and the events.                                                *)
(***************************************************************************)
Event(ev, node, n, pos) == [ev |-> ev, node |-> node, n |-> n, pos |-> pos]

Before(events, r) == [r EXCEPT !.tr = events \o @]

\* faulty variant: the new key is written after the last key, nothing is shifted
insertInLeaf_atEnd(m, MK, node, N, pos, key) ==
    [m  |-> Fault([m EXCEPT !.node[node] =
                      [N EXCEPT !.kNodes = [bzero(N.kNodes, N.nKeys, 1, ZeroKNode)
                                              EXCEPT ![N.nKeys].key = key],
                                !.nKeys = N.nKeys + 1]],
                  N.nKeys + 1 > MK, "assert"),
     p  |-> KeyPtr(node, N.nKeys),
     tr |-> <<Event("insert", node, N.nKeys, pos)>>]

\* the leaf has room "cuz proactive splitting": shift, zero the slot, set the key
insertInLeaf(m, MK, node, N, pos, key) ==
    [m  |-> Fault(Fault([m EXCEPT !.node[node] =
                            [N EXCEPT !.kNodes = [bzero(memmove(N.kNodes, pos + 1, N.kNodes,
                                                                pos, N.nKeys - pos),
                                                        pos, 1, ZeroKNode)
                                                    EXCEPT ![pos].key = key],
                                      !.nKeys = N.nKeys + 1]],
                        ~InArray(N.kNodes, pos + 1, N.nKeys - pos)
                            \/ pos \notin DOMAIN N.kNodes,
                        "out of bounds"),
                  N.nKeys + 1 > MK, "assert"),
     p  |-> KeyPtr(node, pos),
     tr |-> <<Event("insert", node, N.nKeys, pos)>>]

RECURSIVE searchAndInsert(_, _, _, _, _)
\* faulty variant: after the split the search goes on in the elder, the
\* parent is not examined again
descend_noRescan(m, MK, node, N, pos, nextNode, key, create_if_not_found) ==
    IF nextNode = NULL \/ nextNode \notin DOMAIN m.node
    THEN [m |-> Fault(m, TRUE, "null dereference"), p |-> NullKeyPtr, tr |-> <<>>]
    ELSE IF create_if_not_found /\ isFull(m.node[nextNode], MK)
    THEN Before(<<Event("splitNode", node, N.nKeys, pos)>>,
                searchAndInsert(splitNode(m, MK, node, pos), MK, nextNode, key,
                                create_if_not_found))
    ELSE searchAndInsert(m, MK, nextNode, key, create_if_not_found)

\* faulty variant: a full child is split whether or not a key may be created
descend_alwaysSplits(m, MK, node, N, pos, nextNode, key, create_if_not_found) ==
    IF nextNode = NULL \/ nextNode \notin DOMAIN m.node
    THEN [m |-> Fault(m, TRUE, "null dereference"), p |-> NullKeyPtr, tr |-> <<>>]
    ELSE IF isFull(m.node[nextNode], MK)
    THEN Before(<<Event("splitNode", node, N.nKeys, pos)>>,
                searchAndInsert(splitNode(m, MK, node, pos), MK, node, key,
                                create_if_not_found))
    ELSE searchAndInsert(m, MK, nextNode, key, create_if_not_found)

descend(m, MK, node, N, pos, nextNode, key, create_if_not_found) ==
    IF nextNode = NULL \/ nextNode \notin DOMAIN m.node
    THEN [m |-> Fault(m, TRUE, "null dereference"), p |-> NullKeyPtr, tr |-> <<>>]
    ELSE IF create_if_not_found /\ isFull(m.node[nextNode], MK)
    THEN Before(<<Event("splitNode", node, N.nKeys, pos)>>,
                searchAndInsert(splitNode(m, MK, node, pos), MK, node, key,
                                create_if_not_found))
    ELSE searchAndInsert(m, MK, nextNode, key, create_if_not_found)

\* faulty variant: a key is only recognised in a leaf, as in a B+ tree
searchAt_leafOnly(m, MK, node, N, pos, key, create_if_not_found) ==
    Before(<<Event("visit", node, N.nKeys, pos)>>,
           IF N.isLeaf # 0 /\ pos < N.nKeys /\ N.kNodes[pos].key = key
           THEN [m |-> m, p |-> KeyPtr(node, pos), tr |-> <<>>]
           ELSE IF N.isLeaf # 0
           THEN IF create_if_not_found
                THEN insertInLeaf(m, MK, node, N, pos, key)
                ELSE [m |-> m, p |-> NullKeyPtr, tr |-> <<>>]
           ELSE descend(m, MK, node, N, pos, N.kids[pos], key, create_if_not_found))

searchAt(m, MK, node, N, pos, key, create_if_not_found) ==
    Before(<<Event("visit", node, N.nKeys, pos)>>,
           IF pos < N.nKeys /\ N.kNodes[pos].key = key
           THEN [m |-> m, p |-> KeyPtr(node, pos), tr |-> <<>>]
           ELSE IF N.isLeaf # 0
           THEN IF create_if_not_found
                THEN insertInLeaf(m, MK, node, N, pos, key)
                ELSE [m |-> m, p |-> NullKeyPtr, tr |-> <<>>]
           ELSE descend(m, MK, node, N, pos, N.kids[pos], key, create_if_not_found))

searchAndInsert(m, MK, node, key, create_if_not_found) ==
    searchAt(m, MK, node, m.node[node], searchInNode(m.node[node], key), key,
             create_if_not_found)

\* the tree does not exist: a leaf root that holds the key
newRoot(al, MK, key) ==
    [m  |-> Fault([al.m EXCEPT !.root = al.p,
                               !.node[al.p].isLeaf = 1,
                               !.node[al.p].kNodes[0].key = key,
                               !.node[al.p].nKeys = @ + 1],
                  al.m.node[al.p].nKeys + 1 > MK, "assert"),
     p  |-> KeyPtr(al.p, 0),
     tr |-> <<Event("root", al.p, 0, 0)>>]

\* mm->root = alloc_node(); mm->root->isLeaf = 0; mm->root->kids[0] = node
raiseRoot(al, oldRoot) ==
    [al.m EXCEPT !.root = al.p,
                 !.node[al.p].isLeaf = 0,
                 !.node[al.p].kids[0] = oldRoot]

\* the root is full: a new root above it, the old root split
growRoot(al, MK, oldRoot, key, create_if_not_found) ==
    Before(<<Event("grow", al.p, MK, 0), Event("splitNode", al.p, 0, 0)>>,
           searchAndInsert(splitNode(raiseRoot(al, oldRoot), MK, al.p, 0),
                           MK, al.p, key, create_if_not_found))

\* faulty variant: only a full leaf root is grown, a full non-leaf root is
\* entered as it is
find_node_leafGrowthOnly(m, MK, key, create_if_not_found) ==
    IF m.root = NULL
    THEN IF create_if_not_found
         THEN newRoot(alloc_node(m, MK), MK, key)
         ELSE [m |-> m, p |-> KeyPtr(m.root, 0), tr |-> <<>>]
    ELSE IF isFull(m.node[m.root], MK) /\ m.node[m.root].isLeaf = 1
            /\ create_if_not_found
         THEN growRoot(alloc_node(m, MK), MK, m.root, key, create_if_not_found)
         ELSE searchAndInsert(m, MK, m.root, key, create_if_not_found)

find_node(m, MK, key, create_if_not_found) ==
    IF m.root = NULL
    THEN IF create_if_not_found
         THEN newRoot(alloc_node(m, MK), MK, key)
         ELSE [m |-> m, p |-> KeyPtr(m.root, 0), tr |-> <<>>]
    ELSE IF isFull(m.node[m.root], MK) /\ create_if_not_found
         THEN growRoot(alloc_node(m, MK), MK, m.root, key, create_if_not_found)
         ELSE searchAndInsert(m, MK, m.root, key, create_if_not_found)

(***************************************************************************)
(* free, realloc and the accesses to a value buffer.  A buffer is its      *)
(* allocated size in bytes and the values written so far, by index.        *)
(***************************************************************************)
Restrict(f, S) == [x \in S |-> f[x]]

free_buffer(m, p) ==
    IF p = NULL THEN m
    ELSE IF p \notin DOMAIN m.buf THEN Fault(m, TRUE, "double free")
    ELSE [m EXCEPT !.buf = Restrict(m.buf, DOMAIN m.buf \ {p})]

free_node(m, p) ==
    IF p = NULL THEN m
    ELSE IF p \notin DOMAIN m.node THEN Fault(m, TRUE, "double free")
    ELSE [m EXCEPT !.node = Restrict(m.node, DOMAIN m.node \ {p})]

realloc(m, p, size) ==
    IF p = NULL
    THEN [m |-> [m EXCEPT !.buf = (NewAddr(DOMAIN m.buf) :> [size |-> size, data |-> <<>>])
                                  @@ m.buf],
          p |-> NewAddr(DOMAIN m.buf)]
    ELSE IF p \notin DOMAIN m.buf
    THEN [m |-> Fault(m, TRUE, "use after free"), p |-> p]
    ELSE [m |-> [m EXCEPT !.buf[p] =
                    [size |-> size,
                     data |-> Restrict(@.data, {i \in DOMAIN @.data :
                                                  (i + 1) * SizeofValue <= size})]],
          p |-> p]

\* values[i] = value
store(m, p, i, value) ==
    IF p = NULL \/ p \notin DOMAIN m.buf
    THEN Fault(m, TRUE, "null dereference")
    ELSE IF (i + 1) * SizeofValue > m.buf[p].size
    THEN Fault(m, TRUE, "out of bounds")
    ELSE [m EXCEPT !.buf[p].data = (i :> value) @@ m.buf[p].data]

\* whether values[i] can be read: the buffer exists, holds index i, and
\* something was written there
Readable(m, p, i) ==
    /\ p # NULL
    /\ p \in DOMAIN m.buf
    /\ i \in DOMAIN m.buf[p].data

(***************************************************************************)
(* free_multimap_node and clear_multimap.                                  *)
(***************************************************************************)
RECURSIVE free_multimap_node(_, _)
RECURSIVE freeLoop(_, _, _, _)
freeLoop(m, node, N, i) ==
    IF i < N.nKeys
    THEN freeLoop(free_buffer(IF N.isLeaf = 0 THEN free_multimap_node(m, N.kids[i]) ELSE m,
                              N.kNodes[i].values),
                  node, N, i + 1)
    ELSE free_node(IF N.isLeaf = 0 THEN free_multimap_node(m, N.kids[N.nKeys]) ELSE m,
                   node)

free_multimap_node(m, node) ==
    IF node = NULL \/ node \notin DOMAIN m.node
    THEN Fault(m, TRUE, "null dereference")
    ELSE freeLoop(m, node, m.node[node], 0)

\* faulty variant: the nodes are freed and the root pointer is left as it was
clear_multimap_keepsRoot(m) ==
    IF m.root # NULL THEN free_multimap_node(m, m.root) ELSE m

\* faulty variant: the test on the root is inverted, a tree that has nodes is kept
clear_multimap_inverted(m) ==
    IF m.root = NULL THEN [m EXCEPT !.root = NULL] ELSE m

clear_multimap(m) ==
    [(IF m.root # NULL THEN free_multimap_node(m, m.root) ELSE m) EXCEPT !.root = NULL]

(***************************************************************************)
(* mm_add_value: find or create the key, grow its buffer, append.          *)
(***************************************************************************)
RECURSIVE roundUp(_, _)
roundUp(spaceAlloced, spaceTaken) ==
    IF spaceAlloced < spaceTaken
    THEN roundUp(spaceAlloced + LINE_SIZE, spaceTaken)
    ELSE spaceAlloced

\* int spaceTaken = kNodePtr->nVals * sizeof(multimap_value)
spaceTakenOf(kn) == kn.nVals * SizeofValue

\* faulty variant: spaceAlloced starts at one line, not at 0
needsRealloc_fromLine(kn) ==
    roundUp(LINE_SIZE, spaceTakenOf(kn)) - spaceTakenOf(kn) < SizeofValue

\* faulty variant: the test is <= sizeof(multimap_value)
needsRealloc_eager(kn) ==
    roundUp(0, spaceTakenOf(kn)) - spaceTakenOf(kn) <= SizeofValue

\* spaceAlloced - spaceTaken < sizeof(multimap_value)
needsRealloc(kn) ==
    roundUp(0, spaceTakenOf(kn)) - spaceTakenOf(kn) < SizeofValue

\* faulty variant: the buffer is grown to spaceAlloced, without the added line
growValues_noExtraLine(m, kn) ==
    IF needsRealloc(kn)
    THEN realloc(m, kn.values, roundUp(0, spaceTakenOf(kn)))
    ELSE [m |-> m, p |-> kn.values]

\* the realloc of mm_add_value, when it is called
growValues(m, kn) ==
    IF needsRealloc(kn)
    THEN realloc(m, kn.values, roundUp(0, spaceTakenOf(kn)) + LINE_SIZE)
    ELSE [m |-> m, p |-> kn.values]

\* kNodePtr->values = ...; kNodePtr->values[kNodePtr->nVals] = value; nVals++
appendValue(ra, node, idx, kn, value) ==
    [store(ra.m, ra.p, kn.nVals, value)
        EXCEPT !.node[node].kNodes[idx].values = ra.p,
               !.node[node].kNodes[idx].nVals = kn.nVals + 1]

addToKey(m, node, idx, kn, key, value) ==
    [m  |-> Fault(appendValue(growValues(m, kn), node, idx, kn, value),
                  kn.key # key, "assert"),
     tr |-> <<Event(IF needsRealloc(kn) THEN "realloc" ELSE "append",
                    node, kn.nVals, idx)>>]

addAt(f, key, value) ==
    IF f.p.null \/ f.p.node \notin DOMAIN f.m.node
    THEN [m |-> Fault(f.m, TRUE, "assert"), tr |-> f.tr]
    ELSE IF f.p.idx \notin DOMAIN f.m.node[f.p.node].kNodes
    THEN [m |-> Fault(f.m, TRUE, "out of bounds"), tr |-> f.tr]
    ELSE Before(f.tr, addToKey(f.m, f.p.node, f.p.idx,
                               f.m.node[f.p.node].kNodes[f.p.idx], key, value))

mm_add_value(m, MK, key, value) == addAt(find_node(m, MK, key, TRUE), key, value)

(***************************************************************************)
(* Lookups.  A call returns [val, fault]: fault is "" when the call ran to *)
(* its end and names what stopped it otherwise.                            *)
(*                                                                         *)
(* On an empty multimap find_node(create = 0) returns                      *)
(* &mm->root->kNodes[0] with mm->root == NULL: an address computed from    *)
(* NULL, which is not NULL itself.                                         *)
(***************************************************************************)
notNull(f) == [m |-> f.m, val |-> ~f.p.null]

mm_contains_key(m, MK, key) == notNull(find_node(m, MK, key, FALSE))

RECURSIVE containsLoop(_, _, _, _)
containsLoop(m, kn, value, i) ==
    IF i < kn.nVals
    THEN IF ~Readable(m, kn.values, i)
         THEN [m |-> m, val |-> FALSE, fault |-> "invalid read"]
         ELSE IF m.buf[kn.values].data[i] = value
         THEN [m |-> m, val |-> TRUE, fault |-> ""]
         ELSE containsLoop(m, kn, value, i + 1)
    ELSE [m |-> m, val |-> FALSE, fault |-> ""]

scanValues(f, value) ==
    IF f.p.null
    THEN [m |-> f.m, val |-> FALSE, fault |-> ""]
    ELSE IF f.p.node \notin DOMAIN f.m.node
    THEN [m |-> f.m, val |-> FALSE, fault |-> "null dereference"]
    ELSE containsLoop(f.m, f.m.node[f.p.node].kNodes[f.p.idx], value, 0)

mm_contains_pair(m, MK, key, value) == scanValues(find_node(m, MK, key, FALSE), value)

(***************************************************************************)
(* Traversal: the pairs handed to the visitor, in order.                   *)
(***************************************************************************)
RECURSIVE kNodeLoop(_, _, _)
kNodeLoop(m, kn, i) ==
    IF i < kn.nVals
    THEN IF ~Readable(m, kn.values, i)
         THEN [out |-> <<>>, fault |-> "invalid read"]
         ELSE [kNodeLoop(m, kn, i + 1)
                  EXCEPT !.out = <<<<kn.key, m.buf[kn.values].data[i]>>>> \o @]
    ELSE [out |-> <<>>, fault |-> ""]

Reverse(seq) == [i \in 1..Len(seq) |-> seq[Len(seq) + 1 - i]]

\* faulty variant: the values of a key are visited from the last to the first
kNode_traverse_backwards(m, kn) == [kNodeLoop(m, kn, 0) EXCEPT !.out = Reverse(@)]

kNode_traverse(m, kn) == kNodeLoop(m, kn, 0)

\* run a, and b after it unless a stopped
Then(a, b) ==
    IF a.fault # "" THEN a ELSE [out |-> a.out \o b.out, fault |-> b.fault]

RECURSIVE mm_traverse_helper(_, _)
RECURSIVE traverseLoop(_, _, _)
traverseLoop(m, N, i) ==
    IF i < N.nKeys
    THEN Then(IF N.isLeaf = 0 THEN mm_traverse_helper(m, N.kids[i])
                              ELSE [out |-> <<>>, fault |-> ""],
              Then(kNode_traverse(m, N.kNodes[i]), traverseLoop(m, N, i + 1)))
    ELSE IF N.isLeaf = 0 THEN mm_traverse_helper(m, N.kids[N.nKeys])
                         ELSE [out |-> <<>>, fault |-> ""]

mm_traverse_helper(m, node) ==
    IF node = NULL \/ node \notin DOMAIN m.node
    THEN [out |-> <<>>, fault |-> "null dereference"]
    ELSE traverseLoop(m, m.node[node], 0)

mm_traverse(m) == mm_traverse_helper(m, m.root)

\* the handle is allocated and stays so: nothing in the source frees it
init_multimap == [live |-> TRUE, root |-> NULL, node |-> <<>>, buf |-> <<>>, fault |-> ""]

(***************************************************************************)
(* The program: one multimap handle and the calls of its interface.        *)
(* A call that stops the process (ret.fault # "") is the last one.         *)
(***************************************************************************)
Ret(op, val, out, fault) == [op |-> op, val |-> val, out |-> out, fault |-> fault]

RECURSIVE SumLen(_, _)
SumLen(f, S) ==
    IF S = {} THEN 0
    ELSE Len(f[CHOOSE y \in S : TRUE]) + SumLen(f, S \ {CHOOSE y \in S : TRUE})

nAdded == SumLen(added, DOMAIN added)

Running == ret.fault = "" /\ mm.fault = ""

NoReplay == [phase |-> "off", log |-> <<>>, saved |-> <<>>, idx |-> 0]

InitBuild ==
    /\ MAX_KEYS \in Fanouts
    /\ mm = init_multimap
    /\ ret = Ret("init", FALSE, <<>>, "")
    /\ trace = <<>>
    /\ added = [k \in Keys |-> <<>>]

Init ==
    /\ InitBuild
    /\ other = [MAX_KEYS |-> MAX_KEYS, mm |-> init_multimap, ret |-> ret]
    /\ replay = NoReplay

\* On an empty multimap mm_contains_key compares &NULL->kNodes[0] with
\* NULL: undefined behaviour, which a build turns into "not NULL" or into a
\* trap on the NULL root.
\* Traps: whether it traps, which it can only do when the root is NULL.
Traps(m) == IF m.root = NULL THEN BOOLEAN ELSE {FALSE}

ContainsKeyRet(m, r, trapped) ==
    IF m.root = NULL /\ trapped
    THEN Ret("contains_key", FALSE, <<>>, "null dereference")
    ELSE Ret("contains_key", r.val, <<>>, "")

DoAdd(k, v) ==
    /\ Running
    /\ \E r \in {mm_add_value(mm, MAX_KEYS, k, v)} :
           /\ mm' = r.m
           /\ trace' = r.tr
    /\ ret' = Ret("add_value", FALSE, <<>>, "")
    /\ added' = [added EXCEPT ![k] = Append(@, v)]
    /\ UNCHANGED MAX_KEYS

DoContainsKey(k, trapped) ==
    /\ Running
    /\ \E r \in {mm_contains_key(mm, MAX_KEYS, k)} :
           /\ mm' = r.m
           /\ ret' = ContainsKeyRet(mm, r, trapped)
    /\ trace' = <<>>
    /\ UNCHANGED <<MAX_KEYS, added>>

DoContainsPair(k, v) ==
    /\ Running
    /\ \E r \in {mm_contains_pair(mm, MAX_KEYS, k, v)} :
           /\ mm' = r.m
           /\ ret' = Ret("contains_pair", r.val, <<>>, r.fault)
    /\ trace' = <<>>
    /\ UNCHANGED <<MAX_KEYS, added>>

DoTraverse ==
    /\ Running
    /\ \E r \in {mm_traverse(mm)} :
           ret' = Ret("traverse", FALSE, r.out, r.fault)
    /\ trace' = <<>>
    /\ UNCHANGED <<MAX_KEYS, mm, added>>

DoClear ==
    /\ Running
    /\ mm' = clear_multimap(mm)
    /\ ret' = Ret("clear", FALSE, <<>>, "")
    /\ trace' = <<Event("clear", mm.root, Cardinality(DOMAIN mm.node), 0)>>
    /\ added' = [k \in DOMAIN added |-> <<>>]
    /\ UNCHANGED MAX_KEYS

\* the caller of Spec numbers the values it adds to a key: 1, 2, 3, ...
NextVal(k) == Len(added[k]) + 1

AddValue(k) ==
    /\ nAdded < MaxAdds
    /\ DoAdd(k, NextVal(k))
    /\ UNCHANGED <<other, replay>>

ContainsKey(k, trapped) == DoContainsKey(k, trapped) /\ UNCHANGED <<other, replay>>

ContainsPair(k, v) == DoContainsPair(k, v) /\ UNCHANGED <<other, replay>>

Traverse == DoTraverse /\ UNCHANGED <<other, replay>>

Clear == DoClear /\ UNCHANGED <<other, replay>>

Next ==
    \/ \E k \in Keys : AddValue(k)
    \/ \E k \in Keys, trapped \in Traps(mm) : ContainsKey(k, trapped)
    \/ \E k \in Keys, v \in Vals : ContainsPair(k, v)
    \/ Traverse
    \/ Clear

Spec == Init /\ [][Next]_vars

(***************************************************************************)
(* SpecVals: few keys, the values drawn freely (repeated pairs happen).    *)
(***************************************************************************)
AddAnyValue(k, v) ==
    /\ nAdded < MaxValAdds
    /\ DoAdd(k, v)
    /\ UNCHANGED <<other, replay>>

NextVals ==
    \/ \E k \in SmallKeys, v \in Vals : AddAnyValue(k, v)
    \/ \E k \in Keys, trapped \in Traps(mm) : ContainsKey(k, trapped)
    \/ \E k \in Keys, v \in Vals : ContainsPair(k, v)
    \/ Traverse
    \/ Clear

SpecVals == Init /\ [][NextVals]_vars

(***************************************************************************)
(* SpecGrow: few keys, many values per key (the buffers grow).             *)
(***************************************************************************)
AppendValue(k) ==
    /\ Len(added[k]) < MaxAppends
    /\ DoAdd(k, NextVal(k))
    /\ UNCHANGED <<other, replay>>

NextGrow ==
    \/ \E k \in SmallKeys : AppendValue(k)
    \/ Traverse
    \/ Clear

SpecGrow == Init /\ [][NextGrow]_vars

(***************************************************************************)
(* SpecFan: two builds of the program that differ in MAX_KEYS only, given  *)
(* the same calls.  The two are one source and one toolchain, so the       *)
(* undefined comparison of mm_contains_key comes out the same way in both. *)
(***************************************************************************)
InitFan ==
    /\ InitBuild
    /\ \E f \in Fanouts :
           /\ f < MAX_KEYS
           /\ other = [MAX_KEYS |-> f, mm |-> init_multimap, ret |-> ret]
    /\ replay = NoReplay

FanAdd(k) ==
    /\ nAdded < MaxAdds
    /\ DoAdd(k, NextVal(k))
    /\ other' = [other EXCEPT !.mm = mm_add_value(@, other.MAX_KEYS, k, NextVal(k)).m,
                              !.ret = Ret("add_value", FALSE, <<>>, "")]
    /\ UNCHANGED replay

FanContainsKey(k, trapped) ==
    /\ DoContainsKey(k, trapped)
    /\ \E r \in {mm_contains_key(other.mm, other.MAX_KEYS, k)} :
           other' = [other EXCEPT !.mm = r.m,
                                  !.ret = ContainsKeyRet(other.mm, r, trapped)]
    /\ UNCHANGED replay

FanContainsPair(k, v) ==
    /\ DoContainsPair(k, v)
    /\ \E r \in {mm_contains_pair(other.mm, other.MAX_KEYS, k, v)} :
           other' = [other EXCEPT !.mm = r.m,
                                  !.ret = Ret("contains_pair", r.val, <<>>, r.fault)]
    /\ UNCHANGED replay

FanTraverse ==
    /\ DoTraverse
    /\ \E r \in {mm_traverse(other.mm)} :
           other' = [other EXCEPT !.ret = Ret("traverse", FALSE, r.out, r.fault)]
    /\ UNCHANGED replay

FanClear ==
    /\ DoClear
    /\ other' = [other EXCEPT !.mm = clear_multimap(@),
                              !.ret = Ret("clear", FALSE, <<>>, "")]
    /\ UNCHANGED replay

NextFan ==
    \/ \E k \in Keys : FanAdd(k)
    \/ \E k \in Keys, trapped \in Traps(mm) : FanContainsKey(k, trapped)
    \/ \E k \in Keys, v \in Vals : FanContainsPair(k, v)
    \/ FanTraverse
    \/ FanClear

SpecFan == InitFan /\ [][NextFan]_vars

(***************************************************************************)
(* SpecReplay: a sequence S of add_value calls on the new multimap, a      *)
(* traverse, a clear, S again on the same handle, a traverse.              *)
(***************************************************************************)
InitReplay ==
    /\ InitBuild
    /\ other = [MAX_KEYS |-> MAX_KEYS, mm |-> init_multimap, ret |-> ret]
    /\ replay = [phase |-> "record", log |-> <<>>, saved |-> <<>>, idx |-> 0]

RecordAdd(k) ==
    /\ replay.phase = "record"
    /\ nAdded < MaxAdds
    /\ DoAdd(k, NextVal(k))
    /\ replay' = [replay EXCEPT !.log = Append(@, <<k, NextVal(k)>>)]
    /\ UNCHANGED other

RecordTraverse ==
    /\ replay.phase = "record"
    /\ DoTraverse
    /\ replay' = [replay EXCEPT !.phase = "traversed", !.saved = ret'.out]
    /\ UNCHANGED other

ReplayClear ==
    /\ replay.phase = "traversed"
    /\ DoClear
    /\ replay' = [replay EXCEPT !.phase = "replay", !.idx = 1]
    /\ UNCHANGED other

ReplayAdd ==
    /\ replay.phase = "replay"
    /\ replay.idx <= Len(replay.log)
    /\ DoAdd(replay.log[replay.idx][1], replay.log[replay.idx][2])
    /\ replay' = [replay EXCEPT !.idx = @ + 1]
    /\ UNCHANGED other

ReplayTraverse ==
    /\ replay.phase = "replay"
    /\ replay.idx > Len(replay.log)
    /\ DoTraverse
    /\ replay' = [replay EXCEPT !.phase = "done"]
    /\ UNCHANGED other

NextReplay ==
    \/ \E k \in Keys : RecordAdd(k)
    \/ RecordTraverse
    \/ ReplayClear
    \/ ReplayAdd
    \/ ReplayTraverse

SpecReplay == InitReplay /\ [][NextReplay]_vars

(***************************************************************************)
(* SpecDeep: many keys, each added once, so that the tree grows tall.      *)
(***************************************************************************)
InitDeep ==
    /\ MAX_KEYS \in Fanouts
    /\ mm = init_multimap
    /\ ret = Ret("init", FALSE, <<>>, "")
    /\ trace = <<>>
    /\ added = [k \in DeepKeys |-> <<>>]
    /\ other = [MAX_KEYS |-> MAX_KEYS, mm |-> init_multimap, ret |-> ret]
    /\ replay = NoReplay

DeepAdd(k) ==
    /\ added[k] = <<>>
    /\ DoAdd(k, NextVal(k))
    /\ UNCHANGED <<other, replay>>

DeepTraverse == DoTraverse /\ UNCHANGED <<other, replay>>

NextDeep ==
    \/ \E k \in DeepKeys : DeepAdd(k)
    \/ DeepTraverse

SpecDeep == InitDeep /\ [][NextDeep]_vars

(***************************************************************************)
(* SpecSplit: as SpecDeep, with the order of the adds kept in replay.log   *)
(* and MAX_KEYS = ExampleFanout among the builds.                          *)
(***************************************************************************)
InitSplit ==
    /\ MAX_KEYS \in Fanouts \cup {ExampleFanout}
    /\ mm = init_multimap
    /\ ret = Ret("init", FALSE, <<>>, "")
    /\ trace = <<>>
    /\ added = [k \in DeepKeys |-> <<>>]
    /\ other = [MAX_KEYS |-> MAX_KEYS, mm |-> init_multimap, ret |-> ret]
    /\ replay = [phase |-> "record", log |-> <<>>, saved |-> <<>>, idx |-> 0]

SplitAdd(k) ==
    /\ added[k] = <<>>
    /\ DoAdd(k, NextVal(k))
    /\ replay' = [replay EXCEPT !.log = Append(@, <<k, NextVal(k)>>)]
    /\ UNCHANGED other

NextSplit == \E k \in DeepKeys : SplitAdd(k)

SpecSplit == InitSplit /\ [][NextSplit]_vars

(***************************************************************************)
(* What the claims are stated with.                                        *)
(***************************************************************************)
Count(seq, x) == Cardinality({i \in DOMAIN seq : seq[i] = x})

Range(seq) == {seq[i] : i \in DOMAIN seq}

RECURSIVE ValuesOf(_, _)
ValuesOf(out, k) ==
    IF out = <<>> THEN <<>>
    ELSE IF Head(out)[1] = k THEN <<Head(out)[2]>> \o ValuesOf(Tail(out), k)
    ELSE ValuesOf(Tail(out), k)

KeysAscending(out) == \A i \in 1..(Len(out) - 1) : out[i][1] <= out[i + 1][1]

RootIsInternal(m) == m.root # NULL /\ m.node[m.root].isLeaf = 0

RECURSIVE HeightFrom(_, _)
HeightFrom(m, node) ==
    IF m.node[node].isLeaf # 0 THEN 1 ELSE 1 + HeightFrom(m, m.node[node].kids[0])

Height(m) == IF m.root = NULL THEN 0 ELSE HeightFrom(m, m.root)

(***************************************************************************)
(* C1: a traversal delivers the pairs in ascending key order (no key is    *)
(* below the key delivered before it, so the pairs of one key are          *)
(* adjacent), and the values of each key in the order they were added.     *)
(***************************************************************************)
C1_TraverseOrder ==
    ret.op = "traverse" =>
        /\ KeysAscending(ret.out)
        /\ \A k \in Keys : ValuesOf(ret.out, k) = added[k]

C1_Witness ==
    /\ ret.op = "traverse"
    /\ ret.fault = ""
    /\ Height(mm) = 3
    /\ \E k \in Keys : Len(added[k]) >= 2
    /\ Cardinality({k \in Keys : added[k] # <<>>}) >= 3

(***************************************************************************)
(* C2: after N >= 1 add_value calls a traversal calls the visitor N times: *)
(* every pair as often as it was added, and no pair that was not added.    *)
(***************************************************************************)
C2_TraverseBag ==
    (ret.op = "traverse" /\ nAdded >= 1) =>
        /\ ret.fault = ""
        /\ Len(ret.out) = nAdded
        /\ \A i \in DOMAIN ret.out : ret.out[i][1] \in Keys
        /\ \A k \in Keys : \A v \in Vals \cup Range(added[k]) \cup Range(ValuesOf(ret.out, k)) :
               Count(ret.out, <<k, v>>) = Count(added[k], v)

C2_Witness ==
    /\ ret.op = "traverse"
    /\ RootIsInternal(mm)
    /\ \E k \in Keys, v \in Vals : Count(added[k], v) >= 2 /\ Count(ret.out, <<k, v>>) >= 2

(***************************************************************************)
(* C3: on a multimap that holds a pair, contains_key(k) is true exactly    *)
(* when a value was added for k, and contains_pair(k, v) exactly when      *)
(* (k, v) was added; both run to their end.                                *)
(***************************************************************************)
C3_Contains ==
    nAdded >= 1 =>
        \A k \in Keys :
            /\ mm_contains_key(mm, MAX_KEYS, k).val = (added[k] # <<>>)
            /\ \A v \in Vals :
                   /\ mm_contains_pair(mm, MAX_KEYS, k, v).val = (v \in Range(added[k]))
                   /\ mm_contains_pair(mm, MAX_KEYS, k, v).fault = ""

C3_Witness ==
    /\ ret.op = "contains_pair"
    /\ ret.val
    /\ Height(mm) = 3
    /\ \E k \in Keys : added[k] = <<>>
    /\ \E k \in Keys : mm_contains_key(mm, MAX_KEYS, k).val /\ ~mm_contains_pair(mm, MAX_KEYS, k, 2).val

(***************************************************************************)
(* C4: a lookup on the empty multimap answers "not found" and does not     *)
(* touch the absent root.  The code does otherwise: this is the claim,     *)
(* and it is violated.                                                     *)
(***************************************************************************)
C4_EmptyLookup ==
    (ret.op \in {"contains_key", "contains_pair"} /\ mm.root = NULL) =>
        /\ ret.val = FALSE
        /\ ret.fault = ""

(***************************************************************************)
(* C5: a traversal of the empty multimap ends normally and visits nothing. *)
(* The code does otherwise: this is the claim, and it is violated.         *)
(***************************************************************************)
C5_EmptyTraverse ==
    (ret.op = "traverse" /\ mm.root = NULL) =>
        /\ ret.fault = ""
        /\ ret.out = <<>>

(***************************************************************************)
(* C6: after clear_multimap the multimap is empty (no root, no node and no *)
(* value buffer left allocated), the handle is still a multimap, and a     *)
(* clear of an empty multimap changes nothing.                             *)
(***************************************************************************)
C6_Clear ==
    /\ ret.op = "clear" =>
           /\ mm.root = NULL
           /\ DOMAIN mm.node = {}
           /\ DOMAIN mm.buf = {}
           /\ mm.live
           /\ mm.fault = ""
    /\ mm.root = NULL => clear_multimap(mm) = mm

C6_Witness ==
    /\ ret.op = "clear"
    /\ Len(trace) = 1
    /\ trace[1].ev = "clear"
    /\ trace[1].n >= 5
    /\ clear_multimap(mm) = mm

(***************************************************************************)
(* C7: the adds of a sequence S, a clear, and the adds of S again leave a  *)
(* multimap whose traversal is the one S gives on a fresh multimap.        *)
(***************************************************************************)
C7_RoundTrip ==
    replay.phase = "done" =>
        /\ ret.op = "traverse"
        /\ ret.fault = ""
        /\ ret.out = replay.saved

C7_Witness ==
    /\ replay.phase = "done"
    /\ Len(replay.log) >= 4
    /\ Len(ret.out) = Len(replay.log)
    /\ RootIsInternal(mm)

(***************************************************************************)
(* C8: two builds that differ in MAX_KEYS only, driven by the same calls,  *)
(* return the same results and deliver the same traversals, and neither    *)
(* fails where the other does not.                                         *)
(***************************************************************************)
C8_FanoutUnobservable ==
    /\ other.ret = ret
    /\ other.mm.fault = mm.fault

C8_Witness ==
    /\ other.MAX_KEYS # MAX_KEYS
    /\ Height(other.mm) # Height(mm)
    /\ ret.op = "traverse"
    /\ Len(ret.out) >= 4
    /\ other.ret.out = ret.out

(***************************************************************************)
(* C9: splitNode is only called on a parent that is not full, a key is     *)
(* only inserted in a leaf that is not full, no node ever holds more than  *)
(* MAX_KEYS keys, and none of the code's assertions fails.                 *)
(***************************************************************************)
C9_ProactiveSplit ==
    /\ \A i \in DOMAIN trace :
           trace[i].ev \in {"splitNode", "insert"} => trace[i].n < MAX_KEYS
    /\ \A p \in DOMAIN mm.node :
           mm.node[p].nKeys >= 0 /\ mm.node[p].nKeys <= MAX_KEYS
    /\ mm.fault = ""

C9_Witness ==
    /\ \E i \in DOMAIN trace : trace[i].ev = "splitNode" /\ trace[i].n = MAX_KEYS - 1
    /\ \E i \in DOMAIN trace : trace[i].ev = "insert" /\ trace[i].n = MAX_KEYS - 1
    /\ Height(mm) >= 3

(***************************************************************************)
(* C10: the buffer of a key record that holds values.                      *)
(***************************************************************************)
LiveRecords(m) ==
    {kn \in UNION {{m.node[p].kNodes[i] : i \in 0..(m.node[p].nKeys - 1)} : p \in DOMAIN m.node} :
        kn.nVals > 0}

BufBytes(m, kn) == IF kn.values \in DOMAIN m.buf THEN m.buf[kn.values].size ELSE 0

\* C10 as the specification states it: the byte length of the buffer is a
\* positive multiple of LINE_SIZE and strictly greater than
\* nVals * sizeof(value).  Violated when nVals * sizeof(value) is LINE_SIZE.
C10_AsStated ==
    \A kn \in LiveRecords(mm) :
        /\ BufBytes(mm, kn) > 0
        /\ BufBytes(mm, kn) % LINE_SIZE = 0
        /\ BufBytes(mm, kn) > kn.nVals * SizeofValue

\* C10, amended: the byte length of the buffer is a positive multiple of
\* LINE_SIZE and at least nVals * sizeof(value); the two are equal only
\* when nVals * sizeof(value) is itself a multiple of LINE_SIZE.
C10_BufferHoldsValues ==
    \A kn \in LiveRecords(mm) :
        /\ BufBytes(mm, kn) > 0
        /\ BufBytes(mm, kn) % LINE_SIZE = 0
        /\ BufBytes(mm, kn) >= kn.nVals * SizeofValue
        /\ (kn.nVals * SizeofValue) % LINE_SIZE # 0 =>
               BufBytes(mm, kn) > kn.nVals * SizeofValue

C10_Witness ==
    /\ \E kn \in LiveRecords(mm) :
           kn.nVals * SizeofValue = LINE_SIZE /\ BufBytes(mm, kn) = LINE_SIZE
    /\ \E kn \in LiveRecords(mm) :
           kn.nVals * SizeofValue > LINE_SIZE /\ BufBytes(mm, kn) = 2 * LINE_SIZE

(***************************************************************************)
(* The shape of the tree, as the structural claims read it.                *)
(***************************************************************************)
LiveIdx(N) == {i \in DOMAIN N.kNodes : i < N.nKeys}

LiveKids(N) == {i \in DOMAIN N.kids : i <= N.nKeys}

RECURSIVE SubtreeKeys(_, _)
SubtreeKeys(m, p) ==
    IF p \notin DOMAIN m.node THEN {}
    ELSE {m.node[p].kNodes[i].key : i \in LiveIdx(m.node[p])}
         \cup (IF m.node[p].isLeaf = 0
               THEN UNION {SubtreeKeys(m, m.node[p].kids[i]) : i \in LiveKids(m.node[p])}
               ELSE {})

HasEvent(ev) == \E i \in DOMAIN trace : trace[i].ev = ev

(***************************************************************************)
(* C11: between operations, the live keys of every node are strictly       *)
(* increasing, and for every key i of a non-leaf node the keys under       *)
(* kids[i] are below it and the keys under kids[i + 1] above it.           *)
(***************************************************************************)
C11_SearchOrder ==
    \A p \in DOMAIN mm.node :
        /\ \A i \in LiveIdx(mm.node[p]), j \in LiveIdx(mm.node[p]) :
               i < j => mm.node[p].kNodes[i].key < mm.node[p].kNodes[j].key
        /\ mm.node[p].isLeaf = 0 =>
               \A i \in LiveIdx(mm.node[p]) :
                   /\ \A k \in SubtreeKeys(mm, mm.node[p].kids[i]) :
                          k < mm.node[p].kNodes[i].key
                   /\ \A k \in SubtreeKeys(mm, mm.node[p].kids[i + 1]) :
                          k > mm.node[p].kNodes[i].key

C11_Witness ==
    /\ HasEvent("grow")
    /\ HasEvent("insert")
    /\ \E i \in DOMAIN trace : trace[i].ev = "splitNode" /\ trace[i].n >= 1
    /\ Height(mm) >= 3
    /\ \E p \in DOMAIN mm.node : mm.node[p].isLeaf = 0 /\ mm.node[p].nKeys >= 2

(***************************************************************************)
(* C12: all the leaves of the tree lie at the same depth.                  *)
(***************************************************************************)
RECURSIVE LeafDepths(_, _, _)
LeafDepths(m, p, d) ==
    IF p \notin DOMAIN m.node THEN {}
    ELSE IF m.node[p].isLeaf # 0 THEN {d}
    ELSE UNION {LeafDepths(m, m.node[p].kids[i], d + 1) : i \in LiveKids(m.node[p])}

Leaves(m) == {p \in DOMAIN m.node : m.node[p].isLeaf # 0}

C12_LeafUniformity ==
    mm.root # NULL => LeafDepths(mm, mm.root, 1) = {Height(mm)}

C12_Witness ==
    /\ Height(mm) = 4
    /\ Cardinality(Leaves(mm)) >= 4
    /\ HasEvent("grow")
    /\ Cardinality(LeafDepths(mm, mm.root, 1)) = 1

(***************************************************************************)
(* C13: each key that was added has exactly one live key record in the     *)
(* whole tree, a key that was not added has none, and there is no other    *)
(* record: an add of a present key creates no record, whatever splits it   *)
(* causes on the way, and an add of an absent key creates one.             *)
(***************************************************************************)
LiveSlots(m) == UNION {{<<p, i>> : i \in LiveIdx(m.node[p])} : p \in DOMAIN m.node}

RecordsOf(m, k) == {s \in LiveSlots(m) : m.node[s[1]].kNodes[s[2]].key = k}

C13_KeyUniqueness ==
    /\ \A k \in DOMAIN added :
           Cardinality(RecordsOf(mm, k)) = IF added[k] # <<>> THEN 1 ELSE 0
    /\ Cardinality(LiveSlots(mm)) = Cardinality({k \in DOMAIN added : added[k] # <<>>})

C13_Witness ==
    /\ HasEvent("grow")
    /\ ~HasEvent("insert")
    /\ trace[Len(trace)].ev = "append"
    /\ mm.node[trace[Len(trace)].node].isLeaf = 0
    /\ Height(mm) = 3

(***************************************************************************)
(* C14: what splitNode(parent, pos) leaves.  m0 is the memory before the   *)
(* call and r the memory after it; P and E are the parent and the elder    *)
(* (at address e) in m0, y is the address of the new node, mid is          *)
(* floor(E.nKeys / 2).                                                     *)
(***************************************************************************)
LiveChildSlots(m) ==
    UNION {{<<p, i>> : i \in LiveKids(m.node[p])} : p \in {q \in DOMAIN m.node : m.node[q].isLeaf = 0}}

RecordSet(m) == {m.node[s[1]].kNodes[s[2]] : s \in LiveSlots(m)}

ChildSet(m) == {m.node[s[1]].kids[s[2]] : s \in LiveChildSlots(m)}

SplitPost(m0, r, p, pos, P, e, E, y, mid) ==
    /\ r.fault = ""
    /\ r.root = m0.root
    /\ r.buf = m0.buf
    /\ y \notin DOMAIN m0.node
    /\ DOMAIN r.node = DOMAIN m0.node \cup {y}
    /\ \A q \in DOMAIN m0.node \ {p, e} : r.node[q] = m0.node[q]
    \* the parent
    /\ r.node[p].nKeys = P.nKeys + 1
    /\ r.node[p].isLeaf = P.isLeaf
    /\ r.node[p].kNodes[pos] = E.kNodes[mid]
    /\ \A i \in 0..(pos - 1) : r.node[p].kNodes[i] = P.kNodes[i]
    /\ \A i \in pos..(P.nKeys - 1) : r.node[p].kNodes[i + 1] = P.kNodes[i]
    /\ \A i \in 0..pos : r.node[p].kids[i] = P.kids[i]
    /\ r.node[p].kids[pos + 1] = y
    /\ \A i \in (pos + 1)..P.nKeys : r.node[p].kids[i + 1] = P.kids[i]
    \* the elder
    /\ r.node[e].nKeys = mid
    /\ r.node[e].isLeaf = E.isLeaf
    /\ \A i \in 0..(mid - 1) : r.node[e].kNodes[i] = E.kNodes[i]
    /\ E.isLeaf = 0 => \A i \in 0..mid : r.node[e].kids[i] = E.kids[i]
    \* the younger
    /\ r.node[y].nKeys = E.nKeys - mid - 1
    /\ r.node[y].isLeaf = E.isLeaf
    /\ \A i \in 0..(E.nKeys - mid - 2) : r.node[y].kNodes[i] = E.kNodes[mid + 1 + i]
    /\ E.isLeaf = 0 =>
           \A i \in 0..(E.nKeys - mid - 1) : r.node[y].kids[i] = E.kids[mid + 1 + i]
    \* nothing lost, nothing twice
    /\ RecordSet(r) = RecordSet(m0)
    /\ Cardinality(LiveSlots(r)) = Cardinality(LiveSlots(m0))
    /\ ChildSet(r) = ChildSet(m0) \cup {y}
    /\ Cardinality(LiveChildSlots(r)) = Cardinality(LiveChildSlots(m0)) + 1

SplitPostAt(m0, MK, p, pos) ==
    SplitPost(m0, splitNode(m0, MK, p, pos), p, pos, m0.node[p],
              m0.node[p].kids[pos], m0.node[m0.node[p].kids[pos]],
              NewAddr(DOMAIN m0.node), m0.node[m0.node[p].kids[pos]].nKeys \div 2)

\* the places of the tree where splitNode may be called: a non-leaf parent
\* that is not full, and a child of it that holds a key
SplitSites(m, MK) ==
    {s \in LiveChildSlots(m) :
        /\ m.node[s[1]].nKeys < MK
        /\ m.node[s[1]].kids[s[2]] \in DOMAIN m.node
        /\ m.node[m.node[s[1]].kids[s[2]]].nKeys >= 1}

FullSplitSites(m, MK) ==
    {s \in SplitSites(m, MK) : m.node[m.node[s[1]].kids[s[2]]].nKeys = MK}

\* the adds 1, 2, ..., n, each with its first value
Ascending(n) == [i \in 1..n |-> <<i, 1>>]

\* C14: wherever splitNode can be called in a reachable tree (below the
\* root, and on a new root raised above a full one) it leaves the parent
\* with the elder's middle record at pos and its later records and children
\* one place to the right, the elder with its lower records, a new younger
\* node with the upper ones and the elder's leaf flag, every other node and
\* every buffer as it was, and no record or child lost or doubled.  With
\* MAX_KEYS = 4 the adds 1..5 give the root {3} over the leaves {1,2} and
\* {4,5}; with any MAX_KEYS the adds 1..MAX_KEYS+1 give the like.
C14_SplitPostcondition ==
    /\ \A s \in SplitSites(mm, MAX_KEYS) : SplitPostAt(mm, MAX_KEYS, s[1], s[2])
    /\ (mm.root # NULL /\ isFull(mm.node[mm.root], MAX_KEYS)) =>
           SplitPostAt(raiseRoot(alloc_node(mm, MAX_KEYS), mm.root), MAX_KEYS,
                       NewAddr(DOMAIN mm.node), 0)
    /\ (MAX_KEYS = 4 /\ replay.log = Ascending(5)) =>
           /\ mm.node[mm.root].isLeaf = 0
           /\ mm.node[mm.root].nKeys = 1
           /\ mm.node[mm.root].kNodes[0].key = 3
           /\ mm.node[mm.node[mm.root].kids[0]].isLeaf # 0
           /\ mm.node[mm.node[mm.root].kids[1]].isLeaf # 0
           /\ SubtreeKeys(mm, mm.node[mm.root].kids[0]) = {1, 2}
           /\ SubtreeKeys(mm, mm.node[mm.root].kids[1]) = {4, 5}
    /\ replay.log = Ascending(MAX_KEYS + 1) =>
           /\ mm.node[mm.root].isLeaf = 0
           /\ mm.node[mm.root].nKeys = 1
           /\ mm.node[mm.root].kNodes[0].key = (MAX_KEYS \div 2) + 1
           /\ SubtreeKeys(mm, mm.node[mm.root].kids[0]) = 1..(MAX_KEYS \div 2)
           /\ SubtreeKeys(mm, mm.node[mm.root].kids[1]) = ((MAX_KEYS \div 2) + 2)..(MAX_KEYS + 1)

C14_Witness ==
    /\ MAX_KEYS = 4
    /\ replay.log = Ascending(5)
    /\ HasEvent("grow")
    /\ mm.node[mm.root].nKeys = 1
    /\ mm.node[mm.root].kNodes[0].key = 3
    /\ SubtreeKeys(mm, mm.node[mm.root].kids[0]) = {1, 2}
    /\ SubtreeKeys(mm, mm.node[mm.root].kids[1]) = {4, 5}

\* a tree in which splitNode is about to be called on a full non-leaf child
\* of a parent that has keys after pos
C14_WitnessBelowRoot ==
    \E s \in FullSplitSites(mm, MAX_KEYS) :
        /\ mm.node[mm.node[s[1]].kids[s[2]]].isLeaf = 0
        /\ s[2] < mm.node[s[1]].nKeys

(***************************************************************************)
(* C15: a step of a multimap that has a root makes the tree taller only    *)
(* if it is an add_value that starts with MAX_KEYS keys in the root, and   *)
(* then by one level: the new root is a new non-leaf node with one key and *)
(* two children, the first of them the old root.  Every other add_value,   *)
(* whatever it splits, and every lookup and traversal leaves the height    *)
(* and the root as they were.  (ret' names the call that made the step.)   *)
(***************************************************************************)
HeightStep ==
    mm.root # NULL =>
        IF ret'.op = "add_value" /\ mm.node[mm.root].nKeys = MAX_KEYS
        THEN /\ Height(mm') = Height(mm) + 1
             /\ mm'.root \notin DOMAIN mm.node
             /\ mm'.node[mm'.root].isLeaf = 0
             /\ mm'.node[mm'.root].nKeys = 1
             /\ mm'.node[mm'.root].kids[0] = mm.root
             /\ mm'.node[mm'.root].kids[1] \in DOMAIN mm'.node \ DOMAIN mm.node
        ELSE IF ret'.op = "clear"
        THEN Height(mm') = 0
        ELSE /\ Height(mm') = Height(mm)
             /\ mm'.root = mm.root

C15_RootGrowthOnly == [][HeightStep]_vars

C15_Witness ==
    /\ HasEvent("grow")
    /\ \E i \in DOMAIN trace : trace[i].ev = "splitNode" /\ trace[i].n >= 1
    /\ Height(mm) = 3
    /\ mm.node[mm.root].nKeys = 1

(***************************************************************************)
(* C16: on a multimap that has a root, a contains_key, contains_pair or    *)
(* traverse step runs to its end and leaves the memory as it was: the same *)
(* nodes with the same contents, the same buffers, nothing allocated.      *)
(* (ret' names the call that made the step.)                               *)
(***************************************************************************)
LookupStep ==
    (mm.root # NULL /\ ret'.op \in {"contains_key", "contains_pair", "traverse"}) =>
        /\ mm' = mm
        /\ ret'.fault = ""

C16_LookupsReadOnly == [][LookupStep]_vars

\* a lookup that answered "absent" on a tree in which the way to an absent
\* key leads from the root into a full child
C16_Witness ==
    /\ ret.op = "contains_key"
    /\ ~ret.val
    /\ ret.fault = ""
    /\ RootIsInternal(mm)
    /\ \E k \in Keys :
           /\ added[k] = <<>>
           /\ isFull(mm.node[mm.node[mm.root].kids[searchInNode(mm.node[mm.root], k)]],
                     MAX_KEYS)

(***************************************************************************)
(* C17: a non-leaf node with n live keys has a present node in each of     *)
(* kids[0..n] and nothing in the slots after them, a leaf has no child at  *)
(* all; so neither a traversal nor the teardown follows an absent child.   *)
(***************************************************************************)
C17_ChildArity ==
    /\ \A p \in DOMAIN mm.node :
           \A i \in DOMAIN mm.node[p].kids :
               IF mm.node[p].isLeaf = 0 /\ i <= mm.node[p].nKeys
               THEN mm.node[p].kids[i] \in DOMAIN mm.node
               ELSE mm.node[p].kids[i] = NULL
    /\ mm.root # NULL => mm_traverse(mm).fault = ""
    /\ clear_multimap(mm).fault = ""

\* a tree of height 3 that holds a non-leaf node with no key and one child
C17_Witness ==
    /\ Height(mm) = 3
    /\ \E p \in DOMAIN mm.node :
           /\ mm.node[p].isLeaf = 0
           /\ mm.node[p].nKeys = 0
           /\ mm.node[p].kids[0] \in DOMAIN mm.node
    /\ \E p \in DOMAIN mm.node : mm.node[p].isLeaf = 0 /\ mm.node[p].nKeys = MAX_KEYS
    /\ ret.op = "traverse"
    /\ Len(ret.out) = nAdded

(***************************************************************************)
(* C18: the buffer of a key is grown on the appends that find              *)
(* nVals * sizeof(value) a multiple of LINE_SIZE (the first append among   *)
(* them) and on no other, each time to nVals * sizeof(value) + LINE_SIZE   *)
(* bytes, one LINE_SIZE more than it had: a record with nVals values has   *)
(* LINE_SIZE * (floor((nVals - 1) * sizeof(value) / LINE_SIZE) + 1) bytes, *)
(* which is 64 for 1..16 values and 128 for 17.                            *)
(***************************************************************************)
BytesFor(nVals) == LINE_SIZE * ((((nVals - 1) * SizeofValue) \div LINE_SIZE) + 1)

LastEvent == trace[Len(trace)]

C18_GrowthPolicy ==
    /\ \A kn \in LiveRecords(mm) :
           /\ BufBytes(mm, kn) = BytesFor(kn.nVals)
           /\ kn.nVals \in 1..16 => BufBytes(mm, kn) = 64
           /\ kn.nVals = 17 => BufBytes(mm, kn) = 128
    /\ (ret.op = "add_value" /\ mm.fault = "") =>
           /\ LastEvent.ev \in {"realloc", "append"}
           /\ LastEvent.ev = "realloc" <=> (LastEvent.n * SizeofValue) % LINE_SIZE = 0
           /\ LastEvent.ev = "realloc" =>
                  BufBytes(mm, mm.node[LastEvent.node].kNodes[LastEvent.pos])
                      = LastEvent.n * SizeofValue + LINE_SIZE

C18_Witness ==
    /\ ret.op = "add_value"
    /\ LastEvent.ev = "realloc"
    /\ LastEvent.n = 16
    /\ mm.node[LastEvent.node].kNodes[LastEvent.pos].nVals = 17
    /\ BufBytes(mm, mm.node[LastEvent.node].kNodes[LastEvent.pos]) = 128
    /\ \E kn \in LiveRecords(mm) : kn.nVals = 16 /\ BufBytes(mm, kn) = 64

(***************************************************************************)
(* C19: the store of every add_value is inside the buffer: no add_value    *)
(* ends in a fault, and the record the last add_value appended to has a    *)
(* buffer of at least (nVals + 1) * sizeof(value) bytes, nVals being the   *)
(* count the add found, with the value added at index nVals.               *)
(***************************************************************************)
LastRecord == mm.node[LastEvent.node].kNodes[LastEvent.pos]

C19_AppendInBounds ==
    /\ mm.fault = ""
    /\ ret.op = "add_value" =>
           /\ LastEvent.ev \in {"realloc", "append"}
           /\ LastRecord.values \in DOMAIN mm.buf
           /\ BufBytes(mm, LastRecord) >= (LastEvent.n + 1) * SizeofValue
           /\ LastRecord.nVals = LastEvent.n + 1
           /\ Readable(mm, LastRecord.values, LastEvent.n)
           /\ mm.buf[LastRecord.values].data[LastEvent.n]
                  = added[LastRecord.key][Len(added[LastRecord.key])]

\* the append goes to a record that this very add_value moved into the new
\* root, in a buffer that was full
C19_Witness ==
    /\ ret.op = "add_value"
    /\ HasEvent("grow")
    /\ ~HasEvent("insert")
    /\ mm.node[LastEvent.node].isLeaf = 0
    /\ LastEvent.n = 16
    /\ BufBytes(mm, LastRecord) = 128
    /\ \E kn \in LiveRecords(mm) : kn.nVals = 1

(***************************************************************************)
(* C20: every allocated node is the root or is in exactly one live child   *)
(* slot, never both; every allocated buffer is in exactly one live key     *)
(* record; no live slot or record holds a handle of something not          *)
(* allocated; and clear_multimap frees each node and each buffer once,     *)
(* which it could not if something were shared, on a cycle or out of reach *)
(* of the root.                                                            *)
(***************************************************************************)
NodeRefs(m, p) ==
    Cardinality({s \in LiveChildSlots(m) : m.node[s[1]].kids[s[2]] = p})
        + (IF m.root = p THEN 1 ELSE 0)

BufRefs(m, b) ==
    Cardinality({s \in LiveSlots(m) : m.node[s[1]].kNodes[s[2]].values = b})

C20_ExclusiveOwnership ==
    /\ \A p \in DOMAIN mm.node : NodeRefs(mm, p) = 1
    /\ \A b \in DOMAIN mm.buf : BufRefs(mm, b) = 1
    /\ ChildSet(mm) \subseteq DOMAIN mm.node
    /\ \A s \in LiveSlots(mm) : mm.node[s[1]].kNodes[s[2]].values \in DOMAIN mm.buf
    /\ mm.root # NULL => mm.root \in DOMAIN mm.node
    /\ clear_multimap(mm).fault = ""
    /\ DOMAIN clear_multimap(mm).node = {}
    /\ DOMAIN clear_multimap(mm).buf = {}

\* a tree of height 3 whose last add_value split a child of a parent that
\* had keys and children to shift, and that clear_multimap empties
C20_Witness ==
    /\ Height(mm) = 3
    /\ \E i \in DOMAIN trace :
           trace[i].ev = "splitNode" /\ trace[i].n >= 1 /\ trace[i].pos < trace[i].n
    /\ Cardinality(DOMAIN mm.buf) >= 4
    /\ Cardinality(DOMAIN mm.node) >= 6
    /\ DOMAIN clear_multimap(mm).node = {}

(***************************************************************************)
(* C21: every add_value ends, at a key record.  On its way each splitNode  *)
(* is followed by a second look at the same parent, and the look after     *)
(* that is at a child that is not full, never another split; so a node is  *)
(* looked at twice at most, the splits of one add_value are at parents of  *)
(* different depths (one per level at most), and the root grows once at    *)
(* most.                                                                   *)
(***************************************************************************)
EventsOf(ev) == {i \in DOMAIN trace : trace[i].ev = ev}

ParentOf(m, p) == (CHOOSE s \in LiveChildSlots(m) : m.node[s[1]].kids[s[2]] = p)[1]

RECURSIVE DepthOf(_, _)
DepthOf(m, p) == IF p = m.root THEN 1 ELSE 1 + DepthOf(m, ParentOf(m, p))

C21_AddTerminates ==
    (ret.op = "add_value" /\ mm.fault = "") =>
        /\ trace # <<>>
        /\ LastEvent.ev \in {"realloc", "append"}
        /\ \A i \in EventsOf("splitNode") :
               /\ i + 2 <= Len(trace)
               /\ trace[i + 1].ev = "visit"
               /\ trace[i + 1].node = trace[i].node
               /\ trace[i + 2].ev # "splitNode"
               /\ trace[i + 2].ev = "visit" =>
                      /\ trace[i + 2].n < MAX_KEYS
                      /\ trace[i + 2].node # trace[i].node
        /\ \A p \in DOMAIN mm.node :
               Cardinality({i \in EventsOf("visit") : trace[i].node = p}) <= 2
        /\ \A i \in EventsOf("splitNode"), j \in EventsOf("splitNode") :
               i # j => DepthOf(mm, trace[i].node) # DepthOf(mm, trace[j].node)
        /\ Cardinality(EventsOf("splitNode")) <= Height(mm) - 1
        /\ Cardinality(EventsOf("grow")) <= 1
        /\ Cardinality(EventsOf("visit")) <= 2 * Height(mm)

\* an add_value that grew the root and split at two more levels
C21_Witness ==
    /\ ret.op = "add_value"
    /\ Cardinality(EventsOf("grow")) = 1
    /\ Cardinality(EventsOf("splitNode")) = 3
    /\ Height(mm) = 4
    /\ LastEvent.ev = "realloc"

(***************************************************************************)
(* C22: with MAX_KEYS = 2 every non-leaf node holds 1 or 2 keys, that is   *)
(* 2 or 3 children.                                                        *)
(***************************************************************************)
NonLeaves(m) == {p \in DOMAIN m.node : m.node[p].isLeaf = 0}

C22_TwoThreeTree ==
    (MAX_KEYS = 2 /\ mm.fault = "") =>
        \A p \in NonLeaves(mm) :
            /\ mm.node[p].nKeys \in {1, 2}
            /\ Cardinality(LiveKids(mm.node[p])) \in {2, 3}

=============================================================================
